---- MODULE Spec2Model ----
(***************************************************************************)
(* The event bus of src/src/event_bus.py as a state machine.               *)
(*                                                                         *)
(* publish is synchronous and re-entrant: a callback may call subscribe,   *)
(* unsubscribe and publish on the bus that is dispatching to it.  The call *)
(* stack is explicit: one frame per publish call whose `for` loop is       *)
(* running, a frame holding the position of the loop's list iterator and   *)
(* the callback it is currently executing.  Only the code on top of the    *)
(* stack runs.  Callbacks are code outside the bus: the bus calls a        *)
(* callback makes, and whether it returns or raises, are inputs.           *)
(* A callback that raises raises an Exception (the class every error       *)
(* derives from); system-exiting exceptions are not handler failures.      *)
(***************************************************************************)
EXTENDS Integers, Sequences, FiniteSets, TLC

\* ---------------------------------------------------------------- bounds
MaxPublish == 2        \* publish calls in one behaviour
MaxDepth == 2          \* nested publish calls in progress
MaxSubs == 3           \* registrations held by the registry, all types together
MaxCalls == 1          \* bus calls the callbacks of one dispatch make

EventTypes == {"t1", "t2"}
Callbacks == {"A", "B", "C"}
Payloads == {"None", "d1"}          \* the data argument of publish
None == "None"
EmptyDict == "{}"
Tampered == "tampered"

VARIABLES
    subscribers,     \* self._subscribers: event type -> list of callbacks
    events,          \* the Event objects constructed so far, by identity
    event_history,   \* self._event_history: list of references to Events
    now,             \* the clock datetime.now() reads
    stack,           \* publish calls in progress, outermost first
    uncaught,        \* an exception reached the program outside the bus
    returned,        \* the list a get_event_history call gave its caller, if any
    last_call,       \* the bus call made last and what it gave its caller
    cleared,         \* clear_history has been called
    procs,           \* the event processors constructed on the bus, by name
    snapshots,       \* what the get_statistics calls since the last publish returned
    printed,         \* the reports handed to print_report so far
    threads          \* the threads of the program: where each is in its publish call

\* the state outside the bus
app == <<procs, snapshots, printed, threads>>

vars == <<subscribers, events, event_history, now, stack, uncaught, returned,
          last_call, cleared, procs, snapshots, printed, threads>>

\* ------------------------------------------------------- list operations
Range(s) == {s[i] : i \in DOMAIN s}

Count(s, x) == Cardinality({i \in DOMAIN s : s[i] = x})

\* list.index: position of the first occurrence, 0 when there is none
IndexOf(s, x) ==
    IF x \in Range(s) THEN CHOOSE i \in DOMAIN s : s[i] = x /\ \A j \in 1..(i - 1) : s[j] # x
    ELSE 0

RemoveAt(s, i) == SubSeq(s, 1, i - 1) \o SubSeq(s, i + 1, Len(s))

Reverse(s) == [i \in DOMAIN s |-> s[Len(s) + 1 - i]]

\* the last item is moved into the place of the one removed
list_remove_swap(s, x) ==
    LET i == IndexOf(s, x)
    IN  SubSeq([s EXCEPT ![i] = s[Len(s)]], 1, Len(s) - 1)

\* list.remove on a list that holds x: the first occurrence goes
list_remove(s, x) == RemoveAt(s, IndexOf(s, x))

\* ------------------------------------------------------------- registry
\* self._subscribers.get(event_type, [])
Registered(subs, t) == IF t \in DOMAIN subs THEN subs[t] ELSE <<>>

Total(subs) ==
    LET RECURSIVE Sum(_)
        Sum(S) == IF S = {} THEN 0
                  ELSE LET t == CHOOSE x \in S : TRUE
                       IN  Len(subs[t]) + Sum(S \ {t})
    IN  Sum(DOMAIN subs)

\* the number of different callbacks of the type, not of its registrations
get_subscribers_count_distinct(subs, event_type) ==
    IF event_type \notin {None, ""}
    THEN Cardinality(Range(Registered(subs, event_type)))
    ELSE Total(subs)

\* `if event_type:` holds for every argument but None and the empty string
get_subscribers_count(subs, event_type) ==
    IF event_type \notin {None, ""}
    THEN Len(Registered(subs, event_type))
    ELSE Total(subs)

\* a callback the type already has is not registered again
subscribe_dedup(subs, t, cb) ==
    [x \in DOMAIN subs \cup {t} |->
        IF x # t THEN subs[x]
        ELSE IF cb \in Range(Registered(subs, t)) THEN subs[t]
        ELSE Append(Registered(subs, t), cb)]

\* the type gets a list on its first subscription; the callback is appended
subscribe(subs, t, cb) ==
    [x \in DOMAIN subs \cup {t} |->
        IF x = t THEN Append(Registered(subs, t), cb) ELSE subs[x]]

\* the ValueError of list.remove escapes: no try around it
unsubscribe_unguarded(subs, t, cb) ==
    IF t \in DOMAIN subs /\ cb \in Range(subs[t])
    THEN [subscribers |-> [subs EXCEPT ![t] = list_remove(subs[t], cb)],
          returned |-> None, raised |-> FALSE, log |-> "info"]
    ELSE [subscribers |-> subs, returned |-> None, raised |-> TRUE, log |-> None]

\* what the call leaves in the registry, what it returns, whether it raises,
\* and the level of the line it logs
unsubscribe(subs, t, cb) ==
    IF t \in DOMAIN subs
    THEN IF cb \in Range(subs[t])
         THEN [subscribers |-> [subs EXCEPT ![t] = list_remove(subs[t], cb)],
               returned |-> None, raised |-> FALSE, log |-> "info"]
         ELSE [subscribers |-> subs,
               returned |-> None, raised |-> FALSE, log |-> "warning"]
    ELSE [subscribers |-> subs, returned |-> None, raised |-> FALSE, log |-> None]

\* --------------------------------------------------------------- publish
\* the Event holds the data argument as it was given
Event_as_given(t, d, ts) == [event_type |-> t, data |-> d, timestamp |-> ts]

\* Event(event_type=event_type, data=data or {}), timestamp from the clock
Event(t, d, ts) ==
    [event_type |-> t, data |-> IF d = None THEN EmptyDict ELSE d, timestamp |-> ts]

\* the event is recorded only when somebody is subscribed
record_event_if_subscribed(history, id, t, subs) ==
    IF t \in DOMAIN subs THEN Append(history, id) ELSE history

\* self._event_history.append(event)
record_event(history, id, t, subs) == Append(history, id)

\* a frame of the `for callback in self._subscribers[event_type]` loop.
\* idx is the list iterator's index, callback the callback being executed
\* (None between two iterations), calls the bus calls the callbacks of this
\* dispatch have made so far.
\* snapshot, invoked, failed, subscribed and unsubscribed observe the
\* dispatch: the list when it started, the callbacks invoked so far, which
\* invocation was the first to raise (0: none has), and whether the list was
\* appended to or removed from since the dispatch started.
Frame(t, id, subs) ==
    [event_type |-> t, event |-> id, idx |-> 0, callback |-> None, calls |-> 0,
     snapshot |-> subs[t], invoked |-> <<>>, failed |-> 0,
     subscribed |-> FALSE, unsubscribed |-> FALSE]

\* the dispatch is queued behind the ones in progress
enter_dispatch_deferred(stk, frame) == <<frame>> \o stk

\* the loop runs inside the publish call: on top of whatever called publish
enter_dispatch(stk, frame) == Append(stk, frame)

\* the list is walked from its end
next_callback_reversed(list, idx) ==
    IF idx < Len(list) THEN list[Len(list) - idx] ELSE None

\* next() of the iterator over the live list: the item at the index, or
\* exhaustion when the index has reached the list's current length
next_callback(list, idx) ==
    IF idx < Len(list) THEN list[idx + 1] ELSE None

\* no try around the call: the exception unwinds every publish in progress
callback_raised_uncaught(stk) == [stack |-> <<>>, uncaught |-> TRUE]

\* except Exception: the error is logged and the loop goes on
callback_raised(stk) ==
    [stack |-> [stk EXCEPT ![Len(stk)].callback = None, ![Len(stk)].failed = IF @ = 0 THEN stk[Len(stk)].idx ELSE @],
     uncaught |-> FALSE]

\* ----------------------------------------------------------------- state
Top == stack[Len(stack)]

\* code that can call the bus is running: the program outside any publish,
\* or the callback the innermost dispatch is executing
CanCall ==
    \/ stack = <<>>
    \/ stack # <<>> /\ Top.callback # None /\ Top.calls < MaxCalls

\* the running callback has made one more bus call
Called(stk) ==
    IF stk = <<>> THEN stk ELSE [stk EXCEPT ![Len(stk)].calls = @ + 1]

\* the dispatches in progress for type t see their list change
Touched(stk, t, added, removed) ==
    [i \in DOMAIN stk |->
        IF stk[i].event_type = t
        THEN [stk[i] EXCEPT !.subscribed = @ \/ added, !.unsubscribed = @ \/ removed]
        ELSE stk[i]]

NoCall == [op |-> "none", event_type |-> None, callback |-> None,
           returned |-> None, raised |-> FALSE, log |-> None]

Init ==
    /\ subscribers = << >>
    /\ events = <<>>
    /\ event_history = <<>>
    /\ now = 0
    /\ stack = <<>>
    /\ uncaught = FALSE
    /\ returned = [held |-> FALSE, items |-> <<>>]
    /\ last_call = NoCall
    /\ cleared = FALSE
    /\ procs = << >>
    /\ snapshots = <<>>
    /\ printed = <<>>
    /\ threads = << >>

Subscribe(t, cb) ==
    /\ CanCall
    /\ Total(subscribers) < MaxSubs
    /\ subscribers' = subscribe(subscribers, t, cb)
    /\ stack' = Touched(Called(stack), t, TRUE, FALSE)
    /\ last_call' = [op |-> "subscribe", event_type |-> t, callback |-> cb,
                     returned |-> None, raised |-> FALSE, log |-> "info"]
    /\ UNCHANGED <<app, events, event_history, now, uncaught, returned, cleared>>

Unsubscribe(t, cb) ==
    /\ CanCall
    /\ LET r == unsubscribe(subscribers, t, cb)
       IN  /\ subscribers' = r.subscribers
           /\ last_call' = [op |-> "unsubscribe", event_type |-> t, callback |-> cb,
                            returned |-> r.returned, raised |-> r.raised, log |-> r.log]
           /\ IF r.raised
              THEN \* the error travels to whoever made the call
                   IF stack = <<>>
                   THEN stack' = stack /\ uncaught' = TRUE
                   ELSE /\ stack' = callback_raised(stack).stack
                        /\ uncaught' = (uncaught \/ callback_raised(stack).uncaught)
              ELSE /\ stack' = Touched(Called(stack), t, FALSE, r.subscribers # subscribers)
                   /\ uncaught' = uncaught
    /\ UNCHANGED <<app, events, event_history, now, returned, cleared>>

\* the clock is read once for each Event and has advanced since the last reading
Publish(t, d) ==
    /\ CanCall
    /\ Len(events) < MaxPublish
    /\ Len(stack) < MaxDepth
    /\ now' = now + 1
    /\ LET id == Len(events) + 1
       IN  /\ events' = Append(events, Event(t, d, now'))
           /\ event_history' = record_event(event_history, id, t, subscribers)
           /\ stack' = IF t \in DOMAIN subscribers
                       THEN enter_dispatch(Called(stack), Frame(t, id, subscribers))
                       ELSE Called(stack)
    /\ last_call' = [NoCall EXCEPT !.op = "publish", !.event_type = t, !.log = "debug"]
    /\ UNCHANGED <<app, subscribers, uncaught, returned, cleared>>

\* one iteration of the loop begins: callback(event)
Invoke ==
    /\ stack # <<>>
    /\ Top.callback = None
    /\ LET cb == next_callback(subscribers[Top.event_type], Top.idx)
       IN  /\ cb # None
           /\ stack' = [stack EXCEPT ![Len(stack)] =
                           [@ EXCEPT !.idx = @ + 1, !.callback = cb,
                                     !.invoked = Append(@, cb)]]
    /\ UNCHANGED <<app, subscribers, events, event_history, now, uncaught, returned,
                   last_call, cleared>>

CallbackReturns ==
    /\ stack # <<>>
    /\ Top.callback # None
    /\ stack' = [stack EXCEPT ![Len(stack)].callback = None]
    /\ UNCHANGED <<app, subscribers, events, event_history, now, uncaught, returned,
                   last_call, cleared>>

CallbackRaises ==
    /\ stack # <<>>
    /\ Top.callback # None
    /\ LET r == callback_raised(stack)
       IN  /\ stack' = r.stack
           /\ uncaught' = (uncaught \/ r.uncaught)
    /\ UNCHANGED <<app, subscribers, events, event_history, now, returned, last_call,
                   cleared>>

\* the iterator is exhausted: publish returns to its caller
DispatchEnds ==
    /\ stack # <<>>
    /\ Top.callback = None
    /\ next_callback(subscribers[Top.event_type], Top.idx) = None
    /\ stack' = SubSeq(stack, 1, Len(stack) - 1)
    /\ UNCHANGED <<app, subscribers, events, event_history, now, uncaught, returned,
                   last_call, cleared>>

\* self._event_history.clear()
ClearHistory ==
    /\ CanCall
    /\ event_history' = <<>>
    /\ cleared' = TRUE
    /\ stack' = Called(stack)
    /\ last_call' = [NoCall EXCEPT !.op = "clear_history", !.log = "info"]
    /\ UNCHANGED <<app, subscribers, events, now, uncaught, returned>>

\* return self._event_history.copy(): a new list holding the same Events
get_event_history(history) == history

GetEventHistory ==
    /\ stack = <<>>
    /\ returned' = [held |-> TRUE, items |-> get_event_history(event_history)]
    /\ last_call' = [NoCall EXCEPT !.op = "get_event_history"]
    /\ UNCHANGED <<app, subscribers, events, event_history, now, stack, uncaught, cleared>>

\* what the caller can do with the list it was given: add an entry, remove
\* one, reorder them, or alter an Event the list refers to
CopyAppend(id) ==
    /\ returned.held
    /\ Len(returned.items) <= MaxPublish
    /\ id \in DOMAIN events
    /\ returned' = [returned EXCEPT !.items = Append(@, id)]
    /\ UNCHANGED <<app, subscribers, events, event_history, now, stack, uncaught,
                   last_call, cleared>>

CopyRemove(i) ==
    /\ returned.held
    /\ i \in DOMAIN returned.items
    /\ returned' = [returned EXCEPT !.items = RemoveAt(@, i)]
    /\ UNCHANGED <<app, subscribers, events, event_history, now, stack, uncaught,
                   last_call, cleared>>

CopyReverse ==
    /\ returned.held
    /\ Len(returned.items) > 1
    /\ returned' = [returned EXCEPT !.items = Reverse(@)]
    /\ UNCHANGED <<app, subscribers, events, event_history, now, stack, uncaught,
                   last_call, cleared>>

\* Event is a dataclass that is not frozen: returned[i].data = ...
AlterEvent(i) ==
    /\ returned.held
    /\ i \in DOMAIN returned.items
    /\ events' = [events EXCEPT ![returned.items[i]].data = Tampered]
    /\ UNCHANGED <<app, subscribers, event_history, now, stack, uncaught, returned,
                   last_call, cleared>>

CallerChanges ==
    \/ \E id \in 1..MaxPublish : CopyAppend(id)
    \/ \E i \in 1..(MaxPublish + 1) : CopyRemove(i)
    \/ CopyReverse
    \/ \E i \in 1..(MaxPublish + 1) : AlterEvent(i)

Next ==
    \/ \E t \in EventTypes, cb \in Callbacks : Subscribe(t, cb)
    \/ \E t \in EventTypes, cb \in Callbacks : Unsubscribe(t, cb)
    \/ \E t \in EventTypes : Publish(t, None)
    \/ Invoke
    \/ CallbackReturns
    \/ CallbackRaises
    \/ DispatchEnds
    \/ ClearHistory

Spec == Init /\ [][Next]_vars

\* a program that publishes, reads the history and works on the list it got
NextCopy ==
    \/ \E t \in EventTypes, d \in Payloads : Publish(t, d)
    \/ GetEventHistory
    \/ CallerChanges

SpecCopy == Init /\ [][NextCopy]_vars

\* publish called by a callback when the nested dispatches already fill the
\* interpreter's stack (MaxDepth stands for the recursion limit): the call
\* raises RecursionError, before or after the event was appended to the
\* history, depending on where the limit is hit.  RecursionError is an
\* Exception: it leaves the callback that called publish and is caught by
\* the except clause of the dispatch that invoked that callback, which logs
\* it and goes on with its loop
PublishOverflows(t, appended) ==
    /\ stack # <<>>
    /\ Top.callback # None
    /\ Top.calls < MaxCalls
    /\ Len(stack) = MaxDepth
    /\ IF appended
       THEN /\ now' = now + 1
            /\ events' = Append(events, Event(t, None, now'))
            /\ event_history' = record_event(event_history, Len(events) + 1, t, subscribers)
       ELSE UNCHANGED <<now, events, event_history>>
    /\ LET r == callback_raised(Called(stack))
       IN  /\ stack' = r.stack
           /\ uncaught' = (uncaught \/ r.uncaught)
    /\ last_call' = [NoCall EXCEPT !.op = "publish", !.event_type = t,
                                   !.raised = TRUE, !.log = "error"]
    /\ UNCHANGED <<app, subscribers, returned, cleared>>

\* a program whose callbacks publish again, down to the recursion limit
NextCycle ==
    \/ \E t \in EventTypes, cb \in Callbacks : Subscribe(t, cb)
    \/ \E t \in EventTypes : Publish(t, None)
    \/ \E t \in EventTypes, appended \in BOOLEAN : PublishOverflows(t, appended)
    \/ Invoke
    \/ CallbackReturns
    \/ DispatchEnds

SpecCycle == Init /\ [][NextCycle]_vars

\* Event is a dataclass that is not frozen and every callback is handed the
\* object the history refers to: event.data = ..., event.event_type = ...,
\* event.timestamp = ... in a callback
HandlerAltersEvent(field) ==
    /\ stack # <<>>
    /\ Top.callback # None
    /\ events[Top.event][field] # (IF field = "timestamp" THEN 0 ELSE Tampered)
    /\ events' = [events EXCEPT ![Top.event][field] =
                      IF field = "timestamp" THEN 0 ELSE Tampered]
    /\ UNCHANGED <<app, subscribers, event_history, now, stack, uncaught, returned,
                   last_call, cleared>>

\* a program whose callbacks work on the event they are given
NextAlter ==
    \/ \E t \in EventTypes, cb \in Callbacks : Subscribe(t, cb)
    \/ \E t \in EventTypes : Publish(t, "d1")
    \/ Invoke
    \/ \E field \in {"event_type", "data", "timestamp"} : HandlerAltersEvent(field)
    \/ CallbackReturns
    \/ DispatchEnds

SpecAlter == Init /\ [][NextAlter]_vars

\* ------------------------------------------------------ event processors
\* src/src/event_processors.py.  The handlers of the processors make no bus
\* call, so a publish to them runs its whole loop before anything else
\* happens.  Payload dicts are written as the names of their literals.
MaxEvents == 5         \* events published to the counting processors
MaxLifecycle == 6      \* events published to the game time tracker
MaxStats == 2          \* events published between get_statistics calls
MaxSnapshots == 2      \* get_statistics calls between two publish calls
MaxDefaults == 3       \* events published with and without the expected field
MaxThreadCalls == 2    \* publish calls one thread makes

\* self.start_time = None and the like: no timestamp yet
NoTime == -1

Max(a, b) == IF a >= b THEN a ELSE b
Min(a, b) == IF a <= b THEN a ELSE b

\* the dict a payload literal stands for
Dict(d) ==
    CASE d = "result=won" -> [result |-> "won"]
      [] d = "result=lost" -> [result |-> "lost"]
      [] d = "result=draw" -> [result |-> "draw"]
      [] d = "direction=up" -> [direction |-> "up"]
      [] d = "direction=down" -> [direction |-> "down"]
      [] d = "direction=left" -> [direction |-> "left"]
      [] d = "direction=right" -> [direction |-> "right"]
      [] d = "direction=jump" -> [direction |-> "jump"]
      [] d = "damage=15" -> [damage |-> 15]
      [] d = "damage=25" -> [damage |-> 25]
      [] d = "damage=90" -> [damage |-> 90]
      [] d = "healing=30" -> [healing |-> 30]
      [] d = "damage=-20" -> [damage |-> -20]
      [] d = "healing=-30" -> [healing |-> -30]
      [] d = "frame=1000" -> [frame |-> 1000]
      [] OTHER -> << >>

\* event.data.get(key, default)
dict_get(data, key, default) ==
    IF key \in DOMAIN Dict(data) THEN Dict(data)[key] ELSE default

BattleData == {None, "result=won", "result=lost", "result=draw"}
MoveData == {None, "direction=up", "direction=down", "direction=left",
             "direction=right", "direction=jump"}
DamageData == {None, "damage=15", "damage=25", "damage=90"}
HealingData == {None, "healing=30"}
Directions == {"up", "down", "left", "right"}
\* what the clock may have advanced by, in seconds, when it is read again
Ticks == {0, 5, 10}

\* ---- BattleCounterProcessor
BattleCounterProcessor ==
    [battle_count |-> 0, battles_won |-> 0, battles_lost |-> 0,
     last_battle_time |-> NoTime]

BattleCounter_on_battle_started(self, event) ==
    [self EXCEPT !.battle_count = @ + 1, !.last_battle_time = event.timestamp]

\* every result that is not "won" counts as lost
BattleCounter_on_battle_ended_else(self, event) ==
    IF dict_get(event.data, "result", "unknown") = "won"
    THEN [self EXCEPT !.battles_won = @ + 1]
    ELSE [self EXCEPT !.battles_lost = @ + 1]

BattleCounter_on_battle_ended(self, event) ==
    LET result == dict_get(event.data, "result", "unknown")
    IN  IF result = "won" THEN [self EXCEPT !.battles_won = @ + 1]
        ELSE IF result = "lost" THEN [self EXCEPT !.battles_lost = @ + 1]
        ELSE self

\* win_rate is the quotient battles_won / battle_count, kept as the pair of
\* its numerator and denominator; 0 is <<0, 1>>
BattleCounter_get_statistics(self) ==
    [total_battles |-> self.battle_count,
     battles_won |-> self.battles_won,
     battles_lost |-> self.battles_lost,
     win_rate |-> IF self.battle_count > 0
                  THEN <<self.battles_won, self.battle_count>> ELSE <<0, 1>>,
     last_battle_time |-> self.last_battle_time]

\* ---- StepCounterProcessor
StepCounterProcessor ==
    [step_count |-> 0,
     steps_by_direction |-> [up |-> 0, down |-> 0, left |-> 0, right |-> 0]]

\* only the steps in one of the four directions are counted
StepCounter_on_player_moved_known(self, event) ==
    LET direction == dict_get(event.data, "direction", "unknown")
    IN  IF direction \in DOMAIN self.steps_by_direction
        THEN [self EXCEPT !.step_count = @ + 1,
                          !.steps_by_direction[direction] = @ + 1]
        ELSE self

StepCounter_on_player_moved(self, event) ==
    LET direction == dict_get(event.data, "direction", "unknown")
    IN  IF direction \in DOMAIN self.steps_by_direction
        THEN [self EXCEPT !.step_count = @ + 1,
                          !.steps_by_direction[direction] = @ + 1]
        ELSE [self EXCEPT !.step_count = @ + 1]

StepCounter_get_statistics(self) ==
    [total_steps |-> self.step_count, steps_by_direction |-> self.steps_by_direction]

\* ---- GameTimeTracker
GameTimeTracker ==
    [start_time |-> NoTime, end_time |-> NoTime, pause_count |-> 0,
     total_pause_duration |-> 0, current_pause_start |-> NoTime]

GameTime_on_game_started(self, event) == [self EXCEPT !.start_time = event.timestamp]

GameTime_on_game_ended(self, event) == [self EXCEPT !.end_time = event.timestamp]

GameTime_on_game_paused(self, event) ==
    [self EXCEPT !.pause_count = @ + 1, !.current_pause_start = event.timestamp]

\* with no pause open the time since the start counts as a pause
GameTime_on_game_resumed_unguarded(self, event) ==
    LET since == IF self.current_pause_start # NoTime THEN self.current_pause_start
                 ELSE Max(self.start_time, 0)
    IN  [self EXCEPT !.total_pause_duration = @ + (event.timestamp - since),
                     !.current_pause_start = NoTime]

\* the last pause replaces the total
GameTime_on_game_resumed_last(self, event) ==
    IF self.current_pause_start # NoTime
    THEN [self EXCEPT !.total_pause_duration = event.timestamp - self.current_pause_start,
                      !.current_pause_start = NoTime]
    ELSE self

\* `if self.current_pause_start:` holds for every datetime
GameTime_on_game_resumed(self, event) ==
    IF self.current_pause_start # NoTime
    THEN [self EXCEPT !.total_pause_duration =
                          @ + (event.timestamp - self.current_pause_start),
                      !.current_pause_start = NoTime]
    ELSE self

\* the clock is read also when the game has ended
GameTime_get_statistics_clock(self, clock) ==
    IF self.start_time = NoTime THEN [status |-> "not_started"]
    ELSE [start_time |-> self.start_time,
          end_time |-> self.end_time,
          total_duration_seconds |-> clock - self.start_time,
          active_duration_seconds |->
              (clock - self.start_time) - self.total_pause_duration,
          pause_count |-> self.pause_count,
          total_pause_duration_seconds |-> self.total_pause_duration]

\* end = self.end_time or datetime.now(); clock is what datetime.now() reads
GameTime_get_statistics(self, clock) ==
    IF self.start_time = NoTime THEN [status |-> "not_started"]
    ELSE LET end == IF self.end_time # NoTime THEN self.end_time ELSE clock
             total_duration == end - self.start_time
         IN  [start_time |-> self.start_time,
              end_time |-> self.end_time,
              total_duration_seconds |-> total_duration,
              active_duration_seconds |-> total_duration - self.total_pause_duration,
              pause_count |-> self.pause_count,
              total_pause_duration_seconds |-> self.total_pause_duration]

\* ---- HealthMonitor
HealthMonitor ==
    [damage_taken |-> 0, healing_received |-> 0, knockouts |-> 0,
     current_health |-> 100, max_health |-> 100]

\* the health is not kept from going below 0
HealthMonitor_on_player_damaged_unclamped(self, event) ==
    LET damage == dict_get(event.data, "damage", 0)
    IN  [self EXCEPT !.damage_taken = @ + damage,
                     !.current_health = self.current_health - damage]

HealthMonitor_on_player_damaged(self, event) ==
    LET damage == dict_get(event.data, "damage", 0)
    IN  [self EXCEPT !.damage_taken = @ + damage,
                     !.current_health = Max(0, self.current_health - damage)]

\* only the healing that raised the health is added to the total
HealthMonitor_on_player_healed_effective(self, event) ==
    LET healing == dict_get(event.data, "healing", 0)
        health == Min(self.max_health, self.current_health + healing)
    IN  [self EXCEPT !.healing_received = @ + (health - self.current_health),
                     !.current_health = health]

HealthMonitor_on_player_healed(self, event) ==
    LET healing == dict_get(event.data, "healing", 0)
    IN  [self EXCEPT !.healing_received = @ + healing,
                     !.current_health = Min(self.max_health, self.current_health + healing)]

\* the health lost by fainting counts as damage taken
HealthMonitor_on_player_fainted_damage(self, event) ==
    [self EXCEPT !.knockouts = @ + 1,
                 !.damage_taken = @ + self.current_health,
                 !.current_health = 0]

HealthMonitor_on_player_fainted(self, event) ==
    [self EXCEPT !.knockouts = @ + 1, !.current_health = 0]

HealthMonitor_get_statistics(self) ==
    [current_health |-> self.current_health,
     max_health |-> self.max_health,
     total_damage_taken |-> self.damage_taken,
     total_healing_received |-> self.healing_received,
     knockouts |-> self.knockouts,
     net_damage |-> self.damage_taken - self.healing_received]

\* ---- InteractionTracker
InteractionTracker ==
    [npc_interactions |-> 0, items_collected |-> 0, doors_opened |-> 0,
     menus_opened |-> 0]

Interaction_on_npc_interaction(self, event) == [self EXCEPT !.npc_interactions = @ + 1]

\* collecting an item counts as an NPC interaction too
Interaction_on_item_collected_both(self, event) ==
    [self EXCEPT !.items_collected = @ + 1, !.npc_interactions = @ + 1]

Interaction_on_item_collected(self, event) == [self EXCEPT !.items_collected = @ + 1]

Interaction_on_door_opened(self, event) == [self EXCEPT !.doors_opened = @ + 1]

Interaction_on_menu_opened(self, event) == [self EXCEPT !.menus_opened = @ + 1]

Interaction_get_statistics(self) ==
    [npc_interactions |-> self.npc_interactions,
     items_collected |-> self.items_collected,
     doors_opened |-> self.doors_opened,
     menus_opened |-> self.menus_opened]

\* ---- ReportGenerator.  The report a handler generates is printed and
\* dropped: of the generator's own state only reports_generated changes.
ReportGenerator == [reports_generated |-> 0]

ReportGenerator_on_generate_report(self, event) ==
    [self EXCEPT !.reports_generated = @ + 1]

ReportGenerator_on_game_ended(self, event) == self

ReportGenerator_get_statistics(self) == [reports_generated |-> self.reports_generated]

\* ---- the application: GameApplication.__init__ without the emulator
\* the ReportGenerator constructed before the processors
Registrations_generator_first ==
    << <<"generate_report", "report_generator.on_generate_report">>,
       <<"game_ended", "report_generator.on_game_ended">>,
       <<"battle_started", "battle_counter.on_battle_started">>,
       <<"battle_ended", "battle_counter.on_battle_ended">>,
       <<"player_moved", "step_counter.on_player_moved">>,
       <<"game_started", "game_time.on_game_started">>,
       <<"game_ended", "game_time.on_game_ended">>,
       <<"game_paused", "game_time.on_game_paused">>,
       <<"game_resumed", "game_time.on_game_resumed">>,
       <<"player_damaged", "health_monitor.on_player_damaged">>,
       <<"player_healed", "health_monitor.on_player_healed">>,
       <<"player_fainted", "health_monitor.on_player_fainted">>,
       <<"npc_interaction", "interaction_tracker.on_npc_interaction">>,
       <<"item_collected", "interaction_tracker.on_item_collected">>,
       <<"door_opened", "interaction_tracker.on_door_opened">>,
       <<"menu_opened", "interaction_tracker.on_menu_opened">> >>

\* the subscribe calls of the constructors, in the order they are made
Registrations ==
    << <<"battle_started", "battle_counter.on_battle_started">>,
       <<"battle_ended", "battle_counter.on_battle_ended">>,
       <<"player_moved", "step_counter.on_player_moved">>,
       <<"game_started", "game_time.on_game_started">>,
       <<"game_ended", "game_time.on_game_ended">>,
       <<"game_paused", "game_time.on_game_paused">>,
       <<"game_resumed", "game_time.on_game_resumed">>,
       <<"player_damaged", "health_monitor.on_player_damaged">>,
       <<"player_healed", "health_monitor.on_player_healed">>,
       <<"player_fainted", "health_monitor.on_player_fainted">>,
       <<"npc_interaction", "interaction_tracker.on_npc_interaction">>,
       <<"item_collected", "interaction_tracker.on_item_collected">>,
       <<"door_opened", "interaction_tracker.on_door_opened">>,
       <<"menu_opened", "interaction_tracker.on_menu_opened">>,
       <<"generate_report", "report_generator.on_generate_report">>,
       <<"game_ended", "report_generator.on_game_ended">> >>

RECURSIVE SubscribeAll(_, _)
SubscribeAll(subs, regs) ==
    IF regs = <<>> THEN subs
    ELSE SubscribeAll(subscribe(subs, Head(regs)[1], Head(regs)[2]), Tail(regs))

Processors ==
    [battle_counter |-> BattleCounterProcessor,
     step_counter |-> StepCounterProcessor,
     game_time |-> GameTimeTracker,
     health_monitor |-> HealthMonitor,
     interaction_tracker |-> InteractionTracker,
     report_generator |-> ReportGenerator]

ProcessorNames == DOMAIN Processors

\* the bound method of one of the processors, run to its end
run(callback, event, p) ==
    CASE callback = "battle_counter.on_battle_started" ->
             [p EXCEPT !.battle_counter = BattleCounter_on_battle_started(@, event)]
      [] callback = "battle_counter.on_battle_ended" ->
             [p EXCEPT !.battle_counter = BattleCounter_on_battle_ended(@, event)]
      [] callback = "step_counter.on_player_moved" ->
             [p EXCEPT !.step_counter = StepCounter_on_player_moved(@, event)]
      [] callback = "game_time.on_game_started" ->
             [p EXCEPT !.game_time = GameTime_on_game_started(@, event)]
      [] callback = "game_time.on_game_ended" ->
             [p EXCEPT !.game_time = GameTime_on_game_ended(@, event)]
      [] callback = "game_time.on_game_paused" ->
             [p EXCEPT !.game_time = GameTime_on_game_paused(@, event)]
      [] callback = "game_time.on_game_resumed" ->
             [p EXCEPT !.game_time = GameTime_on_game_resumed(@, event)]
      [] callback = "health_monitor.on_player_damaged" ->
             [p EXCEPT !.health_monitor = HealthMonitor_on_player_damaged(@, event)]
      [] callback = "health_monitor.on_player_healed" ->
             [p EXCEPT !.health_monitor = HealthMonitor_on_player_healed(@, event)]
      [] callback = "health_monitor.on_player_fainted" ->
             [p EXCEPT !.health_monitor = HealthMonitor_on_player_fainted(@, event)]
      [] callback = "interaction_tracker.on_npc_interaction" ->
             [p EXCEPT !.interaction_tracker = Interaction_on_npc_interaction(@, event)]
      [] callback = "interaction_tracker.on_item_collected" ->
             [p EXCEPT !.interaction_tracker = Interaction_on_item_collected(@, event)]
      [] callback = "interaction_tracker.on_door_opened" ->
             [p EXCEPT !.interaction_tracker = Interaction_on_door_opened(@, event)]
      [] callback = "interaction_tracker.on_menu_opened" ->
             [p EXCEPT !.interaction_tracker = Interaction_on_menu_opened(@, event)]
      [] callback = "report_generator.on_generate_report" ->
             [p EXCEPT !.report_generator = ReportGenerator_on_generate_report(@, event)]
      [] callback = "report_generator.on_game_ended" ->
             [p EXCEPT !.report_generator = ReportGenerator_on_game_ended(@, event)]

\* event.data.get(...) raises AttributeError when event.data is None
raises(callback, event) ==
    /\ event.data = None
    /\ callback \in {"battle_counter.on_battle_ended", "step_counter.on_player_moved",
                     "health_monitor.on_player_damaged", "health_monitor.on_player_healed",
                     "interaction_tracker.on_item_collected"}

\* what a method that raised at event.data.get had done before: the two that
\* count first have counted
interrupted(callback, p) ==
    CASE callback = "step_counter.on_player_moved" ->
             [p EXCEPT !.step_counter.step_count = @ + 1]
      [] callback = "interaction_tracker.on_item_collected" ->
             [p EXCEPT !.interaction_tracker.items_collected = @ + 1]
      [] OTHER -> p

\* try: callback(event) except Exception: logger.error(...)
call(callback, event, p) ==
    IF raises(callback, event) THEN interrupted(callback, p) ELSE run(callback, event, p)

\* the dispatch has logged the error of a callback
dispatch_raised(callbacks, event) == \E i \in DOMAIN callbacks : raises(callbacks[i], event)

\* for callback in self._subscribers[event_type]: callback(event)
RECURSIVE dispatch(_, _, _)
dispatch(callbacks, event, p) ==
    IF callbacks = <<>> THEN p
    ELSE dispatch(Tail(callbacks), event, call(Head(callbacks), event, p))

\* processor.get_statistics() of the processor of that name
get_statistics(name, p, clock) ==
    CASE name = "battle_counter" -> BattleCounter_get_statistics(p.battle_counter)
      [] name = "step_counter" -> StepCounter_get_statistics(p.step_counter)
      [] name = "game_time" -> GameTime_get_statistics(p.game_time, clock)
      [] name = "health_monitor" -> HealthMonitor_get_statistics(p.health_monitor)
      [] name = "interaction_tracker" -> Interaction_get_statistics(p.interaction_tracker)
      [] name = "report_generator" -> ReportGenerator_get_statistics(p.report_generator)

\* only the processors that have observed an event are reported
generate_report_active(p, clock) ==
    [generated_at |-> clock,
     statistics |-> [name \in {n \in DOMAIN p : p[n] # Processors[n]} |->
                        get_statistics(name, p, clock)]]

\* ReportGenerator.generate_report: the statistics of every processor of the
\* generator's map, the generator itself being one of them (main.py puts it
\* into the dict it was constructed with); clock is what datetime.now() reads
generate_report(p, clock) ==
    [generated_at |-> clock,
     statistics |-> [name \in DOMAIN p |-> get_statistics(name, p, clock)]]

\* the report is made after the callback has done its counting
output_counted(callback, event, p, clock) ==
    IF callback \in {"report_generator.on_generate_report", "report_generator.on_game_ended"}
    THEN << [by |-> callback, event |-> event,
             report |-> [generated_at |-> clock,
                         statistics |-> [name \in DOMAIN p |->
                             get_statistics(name, call(callback, event, p), clock)]]] >>
    ELSE <<>>

\* the reports the callback hands to print_report, each with the callback and
\* the event that made it
output(callback, event, p, clock) ==
    IF callback \in {"report_generator.on_generate_report", "report_generator.on_game_ended"}
    THEN << [by |-> callback, event |-> event, report |-> generate_report(p, clock)] >>
    ELSE <<>>

\* what the callbacks of one dispatch print, one after the other
RECURSIVE dispatch_output(_, _, _, _)
dispatch_output(callbacks, event, p, clock) ==
    IF callbacks = <<>> THEN <<>>
    ELSE output(Head(callbacks), event, p, clock)
         \o dispatch_output(Tail(callbacks), event, call(Head(callbacks), event, p), clock)

InitApp ==
    /\ subscribers = SubscribeAll(<< >>, Registrations)
    /\ procs = Processors
    /\ events = <<>>
    /\ event_history = <<>>
    /\ now = 0
    /\ stack = <<>>
    /\ uncaught = FALSE
    /\ returned = [held |-> FALSE, items |-> <<>>]
    /\ last_call = NoCall
    /\ cleared = FALSE
    /\ snapshots = <<>>
    /\ printed = <<>>
    /\ threads = << >>

\* event_bus.publish(t, d) by the program, the clock having advanced by dt
AppPublish(t, d, dt, max) ==
    /\ stack = <<>>
    /\ Len(events) < max
    /\ now' = now + dt
    /\ LET id == Len(events) + 1
           event == Event(t, d, now')
       IN  /\ events' = Append(events, event)
           /\ event_history' = record_event(event_history, id, t, subscribers)
           /\ procs' = IF t \in DOMAIN subscribers
                       THEN dispatch(subscribers[t], event, procs)
                       ELSE procs
           /\ printed' = IF t \in DOMAIN subscribers
                         THEN printed \o dispatch_output(subscribers[t], event, procs, now')
                         ELSE printed
    /\ snapshots' = <<>>
    /\ last_call' = [NoCall EXCEPT !.op = "publish", !.event_type = t,
                                    !.log = IF /\ t \in DOMAIN subscribers
                                               /\ dispatch_raised(subscribers[t], Event(t, d, now'))
                                            THEN "error" ELSE "debug"]
    /\ UNCHANGED <<subscribers, stack, uncaught, returned, cleared, threads>>

\* processor.get_statistics() by the program, the clock having advanced by dt
GetStatistics(name, dt) ==
    /\ stack = <<>>
    /\ Len(snapshots) < MaxSnapshots
    /\ now' = now + dt
    /\ snapshots' = Append(snapshots, [of |-> name, at |-> now',
                                       value |-> get_statistics(name, procs, now')])
    /\ last_call' = [NoCall EXCEPT !.op = "get_statistics"]
    /\ UNCHANGED <<subscribers, events, event_history, stack, uncaught, returned,
                   cleared, procs, printed, threads>>

NextBattle ==
    \/ AppPublish("battle_started", None, 1, MaxEvents)
    \/ \E d \in BattleData : AppPublish("battle_ended", d, 1, MaxEvents)

SpecBattle == InitApp /\ [][NextBattle]_vars

NextSteps == \E d \in MoveData : AppPublish("player_moved", d, 1, MaxEvents)

SpecSteps == InitApp /\ [][NextSteps]_vars

NextHealth ==
    \/ \E d \in DamageData : AppPublish("player_damaged", d, 1, MaxEvents)
    \/ \E d \in HealingData : AppPublish("player_healed", d, 1, MaxEvents)
    \/ AppPublish("player_fainted", None, 1, MaxEvents)

SpecHealth == InitApp /\ [][NextHealth]_vars

\* publish takes any dict: amounts below zero as well
SignedDamageData == {"damage=25", "damage=90", "damage=-20"}
SignedHealingData == {"healing=30", "healing=-30"}

NextSigned ==
    \/ \E d \in SignedDamageData : AppPublish("player_damaged", d, 1, MaxEvents)
    \/ \E d \in SignedHealingData : AppPublish("player_healed", d, 1, MaxEvents)
    \/ AppPublish("player_fainted", None, 1, MaxEvents)

SpecSigned == InitApp /\ [][NextSigned]_vars

NextTime ==
    \E dt \in Ticks :
        \/ AppPublish("game_started", None, dt, MaxLifecycle)
        \/ AppPublish("game_paused", None, dt, MaxLifecycle)
        \/ AppPublish("game_resumed", None, dt, MaxLifecycle)
        \/ AppPublish("game_ended", None, dt, MaxLifecycle)

SpecTime == InitApp /\ [][NextTime]_vars

\* ---- publish called from more than one thread.  Nothing in the bus or in
\* the processors takes a lock, and `self.x += v` is a read of the field, an
\* addition and a write of the field: a thread may be suspended between the
\* read and the write.  list.append is one step.
Threads == {"T1", "T2"}

\* the fields a handler updates, in the order of its statements
Updates(t) ==
    CASE t = "player_moved" -> <<"step_count", "steps_by_direction.up">>
      [] t = "player_damaged" -> <<"damage_taken", "current_health">>

Owner(t) == IF t = "player_moved" THEN "step_counter" ELSE "health_monitor"

ReadField(field, p) ==
    CASE field = "step_count" -> p.step_counter.step_count
      [] field = "steps_by_direction.up" -> p.step_counter.steps_by_direction.up
      [] field = "damage_taken" -> p.health_monitor.damage_taken
      [] field = "current_health" -> p.health_monitor.current_health

\* the value the statement writes, given the value it has read
NewValue(field, read, event) ==
    CASE field = "step_count" -> read + 1
      [] field = "steps_by_direction.up" -> read + 1
      [] field = "damage_taken" -> read + dict_get(event.data, "damage", 0)
      [] field = "current_health" -> Max(0, read - dict_get(event.data, "damage", 0))

WriteField(field, p, value) ==
    CASE field = "step_count" -> [p EXCEPT !.step_counter.step_count = value]
      [] field = "steps_by_direction.up" ->
             [p EXCEPT !.step_counter.steps_by_direction.up = value]
      [] field = "damage_taken" -> [p EXCEPT !.health_monitor.damage_taken = value]
      [] field = "current_health" -> [p EXCEPT !.health_monitor.current_health = value]

Idle == [pc |-> "idle", event |-> 0, step |-> 0, read |-> 0, calls |-> 0]

InitThreads ==
    /\ subscribers = SubscribeAll(<< >>, Registrations)
    /\ procs = Processors
    /\ events = <<>>
    /\ event_history = <<>>
    /\ now = 0
    /\ stack = <<>>
    /\ uncaught = FALSE
    /\ returned = [held |-> FALSE, items |-> <<>>]
    /\ last_call = NoCall
    /\ cleared = FALSE
    /\ snapshots = <<>>
    /\ printed = <<>>
    /\ threads = [th \in Threads |-> Idle]

\* the thread calls publish: the Event is constructed and appended to the
\* history, and the one callback of the type is about to be called
ThreadPublish(th, t, d) ==
    /\ threads[th].pc = "idle"
    /\ threads[th].calls < MaxThreadCalls
    /\ now' = now + 1
    /\ events' = Append(events, Event(t, d, now'))
    /\ event_history' = record_event(event_history, Len(events) + 1, t, subscribers)
    /\ threads' = [threads EXCEPT ![th] =
                       [pc |-> "read", event |-> Len(events) + 1, step |-> 1,
                        read |-> 0, calls |-> @.calls + 1]]
    /\ UNCHANGED <<subscribers, stack, uncaught, returned, last_call, cleared, procs,
                   snapshots, printed>>

\* the handler reads the field its next statement updates
ThreadRead(th) ==
    /\ threads[th].pc = "read"
    /\ LET field == Updates(events[threads[th].event].event_type)[threads[th].step]
       IN  threads' = [threads EXCEPT ![th].pc = "write",
                                      ![th].read = ReadField(field, procs)]
    /\ UNCHANGED <<subscribers, events, event_history, now, stack, uncaught, returned,
                   last_call, cleared, procs, snapshots, printed>>

\* the handler writes the field; after its last statement it returns, and
\* publish returns to the thread
ThreadWrite(th) ==
    /\ threads[th].pc = "write"
    /\ LET event == events[threads[th].event]
           fields == Updates(event.event_type)
           field == fields[threads[th].step]
       IN  /\ procs' = WriteField(field, procs, NewValue(field, threads[th].read, event))
           /\ threads' = IF threads[th].step < Len(fields)
                         THEN [threads EXCEPT ![th].pc = "read", ![th].step = @ + 1]
                         ELSE [threads EXCEPT ![th].pc = "idle", ![th].step = 0,
                                              ![th].event = 0, ![th].read = 0]
    /\ UNCHANGED <<subscribers, events, event_history, now, stack, uncaught, returned,
                   last_call, cleared, snapshots, printed>>

NextThreads ==
    \E th \in Threads :
        \/ ThreadPublish(th, "player_moved", "direction=up")
        \/ ThreadPublish(th, "player_damaged", "damage=25")
        \/ ThreadRead(th)
        \/ ThreadWrite(th)

SpecThreads == InitThreads /\ [][NextThreads]_vars

\* a program whose events come with a payload, with one that lacks the
\* field the processor reads, with an empty one or with none
NextDefaults ==
    \E t \in {"player_damaged", "player_healed", "battle_ended", "player_moved"},
       d \in {None, EmptyDict, "frame=1000", "damage=25", "healing=30", "result=won",
              "direction=up"} :
        AppPublish(t, d, 1, MaxDefaults)

SpecDefaults == InitApp /\ [][NextDefaults]_vars

\* a program that plays, asks for reports and ends the game
NextReport ==
    \/ AppPublish("generate_report", None, 5, MaxEvents)
    \/ AppPublish("game_started", None, 5, MaxEvents)
    \/ AppPublish("game_ended", None, 5, MaxEvents)
    \/ AppPublish("player_moved", "direction=up", 5, MaxEvents)

SpecReport == InitApp /\ [][NextReport]_vars

\* a program that publishes events of every type and reads the statistics of
\* a processor, twice in a row at most
NextStats ==
    \/ \E t \in DOMAIN subscribers : AppPublish(t, None, 5, MaxStats)
    \/ AppPublish("player_moved", "direction=up", 5, MaxStats)
    \/ AppPublish("player_damaged", "damage=25", 5, MaxStats)
    \/ AppPublish("battle_ended", "result=won", 5, MaxStats)
    \/ \E name \in ProcessorNames, dt \in {0, 5} :
           /\ snapshots # <<>> => snapshots[1].of = name
           /\ GetStatistics(name, dt)

SpecStats == InitApp /\ [][NextStats]_vars

\* ------------------------------------------------------------ properties
\* the innermost publish call has run out of callbacks and is about to return
Returning ==
    /\ stack # <<>>
    /\ Top.callback = None
    /\ Top.idx >= Len(subscribers[Top.event_type])

\* nothing subscribed to or unsubscribed from the type since the dispatch began
Quiet(f) == ~f.subscribed /\ ~f.unsubscribed

\* C1: as long as clear_history is not called, the history holds one entry for
\* every publish call made (nested calls, calls for types without
\* subscribers and calls whose callbacks raise included), and no exception
\* leaves a publish call.
C1_HistoryCountsPublishCalls ==
    /\ ~uncaught
    /\ ~cleared => Len(event_history) = Len(events)

C1_Witness ==
    /\ ~cleared
    /\ Len(events) = 2
    /\ events[1].event_type \notin DOMAIN subscribers
    /\ stack # <<>>
    /\ Top.event = 2
    /\ Top.failed > 0
    /\ Len(event_history) = 2

\* C2: a publish during which the type's registrations do not change invokes
\* exactly the callbacks registered for the type, each registration once, in
\* registration order, and no callback of another type.
C2_RegistrationOrder ==
    (Returning /\ Quiet(Top)) => Top.invoked = Top.snapshot

C2_Witness ==
    /\ Returning
    /\ Quiet(Top)
    /\ Top.snapshot = <<"A", "B", "C">>
    /\ Top.invoked = <<"A", "B", "C">>

\* C3: when a callback raises, the callbacks registered after it are still
\* invoked in order, the exception does not reach the caller of publish, and
\* the event is in the history exactly once.
C3_Isolation ==
    /\ ~uncaught
    /\ (Returning /\ Quiet(Top) /\ Top.failed > 0) => Top.invoked = Top.snapshot
    /\ \A i \in DOMAIN stack :
          (stack[i].failed > 0 /\ ~cleared) => Count(event_history, stack[i].event) = 1

C3_Witness ==
    /\ Returning
    /\ Quiet(Top)
    /\ Top.failed = 1
    /\ Top.invoked = <<"A", "B", "C">>
    /\ ~cleared
    /\ Count(event_history, Top.event) = 1

\* C4: a callback subscribed for the type while the type is being dispatched
\* is not invoked by the dispatch in progress: a dispatch invokes only
\* callbacks that were registered for the type when it started.
C4_SubscribeDuringDispatch ==
    \A i \in DOMAIN stack : Range(stack[i].invoked) \subseteq Range(stack[i].snapshot)

\* C5: a callback unsubscribed from the type while the type is being
\* dispatched does not change the dispatch in progress: every callback
\* registered when the dispatch started is invoked exactly once.
C5_UnsubscribeDuringDispatch ==
    (Returning /\ Top.unsubscribed /\ ~Top.subscribed) => Top.invoked = Top.snapshot

\* C9: a publish made by a callback is dispatched to completion before that
\* callback continues: every dispatch below the innermost one is suspended
\* inside a callback, on an older event, and the history lists the events in
\* the order their publish calls began.
C9_DepthFirst ==
    /\ \A i \in DOMAIN stack :
          i < Len(stack) => /\ stack[i].callback # None
                            /\ stack[i].event < stack[i + 1].event
    /\ \A i, j \in DOMAIN event_history :
          i < j => event_history[i] < event_history[j]
    /\ ~cleared => \A i \in DOMAIN stack : Count(event_history, stack[i].event) = 1

C9_Witness ==
    /\ Len(stack) = 2
    /\ Returning
    /\ Top.invoked # <<>>
    /\ event_history = <<1, 2>>
    /\ stack[1].idx < Len(subscribers[stack[1].event_type])

\* the list without the first occurrence of x, stated position by position
WithoutFirst(s, x) ==
    LET first == CHOOSE i \in DOMAIN s : s[i] = x /\ \A j \in DOMAIN s : s[j] = x => i <= j
    IN  [j \in 1..(Len(s) - 1) |-> IF j < first THEN s[j] ELSE s[j + 1]]

OtherTypesUnchanged(t) ==
    /\ DOMAIN subscribers' = DOMAIN subscribers
    /\ \A u \in DOMAIN subscribers \ {t} : subscribers'[u] = subscribers[u]

\* C6: unsubscribe(T, B) with B registered once for T leaves for T the other
\* callbacks in their order and nothing of B, changes no other type's list,
\* and a dispatch invokes only callbacks that are in the type's list, so no
\* later publish of T invokes B.
C6_UnsubscribeRemovesOnlyThat ==
    [][ /\ \A t \in EventTypes, cb \in Callbacks :
              (Unsubscribe(t, cb) /\ Count(Registered(subscribers, t), cb) = 1)
              => /\ subscribers'[t] = SelectSeq(subscribers[t], LAMBDA x : x # cb)
                 /\ OtherTypesUnchanged(t)
        /\ Invoke => Top'.callback \in Range(subscribers[Top.event_type])
      ]_vars

C6_Witness ==
    /\ last_call.op = "unsubscribe"
    /\ last_call.event_type = "t1"
    /\ last_call.callback = "B"
    /\ last_call.log = "info"
    /\ subscribers["t1"] = <<"A", "C">>

\* C7: subscribe always adds one registration, also of a callback the type
\* already has; a publish invokes a callback once for each of its
\* registrations; one unsubscribe removes the first of them and only that.
C7_NoDeduplication ==
    [][ /\ \A t \in EventTypes, cb \in Callbacks :
              Subscribe(t, cb)
              => subscribers'[t] = Registered(subscribers, t) \o <<cb>>
        /\ \A t \in EventTypes, cb \in Callbacks :
              (Unsubscribe(t, cb) /\ Count(Registered(subscribers, t), cb) >= 1)
              => /\ subscribers'[t] = WithoutFirst(subscribers[t], cb)
                 /\ Count(subscribers'[t], cb) = Count(subscribers[t], cb) - 1
        /\ (Returning /\ Quiet(Top))'
              => \A cb \in Callbacks :
                    Count(Top'.invoked, cb) = Count(Top'.snapshot, cb)
      ]_vars

C7_Witness ==
    /\ Returning
    /\ Quiet(Top)
    /\ Top.snapshot = <<"A", "B", "A">>
    /\ Count(Top.invoked, "A") = 2

HistoryView == [i \in DOMAIN event_history |-> events[event_history[i]]]

\* C10: nothing the caller does through the list get_event_history returned
\* (adding, removing or reordering entries, altering an Event in it) changes
\* what later get_event_history calls return.
C10_DefensiveCopy ==
    [][CallerChanges => HistoryView' = HistoryView]_vars


\* the per-type counts added up over the types
RECURSIVE SumOfCounts(_, _)
SumOfCounts(subs, S) ==
    IF S = {} THEN 0
    ELSE LET t == CHOOSE x \in S : TRUE
         IN  get_subscribers_count(subs, t) + SumOfCounts(subs, S \ {t})

CountsUnchanged ==
    \A u \in EventTypes \cup {None} :
        get_subscribers_count(subscribers', u) = get_subscribers_count(subscribers, u)

C12_EventImmutable ==
    [][\A id \in DOMAIN events : events'[id] = events[id]]_vars

\* the events of a type published so far, by their place in the order of
\* publication
Published(t) == {i \in DOMAIN events : events[i].event_type = t}

\* the battle_ended events that carry that result
Ended(result) ==
    {i \in Published("battle_ended") :
        "result" \in DOMAIN Dict(events[i].data) /\ Dict(events[i].data).result = result}

\* C13: total_battles is the number of battle_started events, battles_won and
\* battles_lost the numbers of battle_ended events with result "won" and
\* "lost" (another result, or none, counts for neither), and win_rate is
\* battles_won / total_battles when total_battles > 0 and 0 otherwise.
C13_BattleStatistics ==
    LET s == BattleCounter_get_statistics(procs.battle_counter)
        started == Cardinality(Published("battle_started"))
    IN  /\ s.total_battles = started
        /\ s.battles_won = Cardinality(Ended("won"))
        /\ s.battles_lost = Cardinality(Ended("lost"))
        /\ s.win_rate[2] # 0
        /\ IF started > 0
           THEN s.win_rate[1] * started = Cardinality(Ended("won")) * s.win_rate[2]
           ELSE s.win_rate[1] = 0

\* two battles, one won, one lost, and a third battle_ended that says "draw"
C13_Witness ==
    /\ Cardinality(Published("battle_started")) = 2
    /\ Cardinality(Ended("won")) = 1
    /\ Cardinality(Ended("lost")) = 1
    /\ Cardinality(Ended("draw")) = 1
    /\ BattleCounter_get_statistics(procs.battle_counter).win_rate = <<1, 2>>
    /\ BattleCounter_get_statistics(procs.battle_counter).battles_lost = 1

\* the step is a publish call of an event of that type
Observed(t) ==
    /\ Len(events') = Len(events) + 1
    /\ events'[Len(events')].event_type = t

\* the amount the event published by the step carries under that key, 0 when
\* it carries none
Amount(key) == dict_get(events'[Len(events')].data, key, 0)

\* C14: with damage and healing amounts that are non-negative integers the
\* health starts at 100 and stays within 0..max_health; a player_damaged
\* event takes it from h to max(0, h - damage) and a player_healed event to
\* min(max_health, h + healing).
C14_HealthBounds ==
    /\ procs.health_monitor.current_health = 100
    /\ [](/\ 0 <= procs.health_monitor.current_health
          /\ procs.health_monitor.current_health <= procs.health_monitor.max_health)
    /\ [][ LET h == procs.health_monitor.current_health
               top == procs.health_monitor.max_health
           IN  /\ Observed("player_damaged")
                  => procs'.health_monitor.current_health =
                         (IF h - Amount("damage") > 0 THEN h - Amount("damage") ELSE 0)
               /\ Observed("player_healed")
                  => procs'.health_monitor.current_health =
                         (IF h + Amount("healing") < top THEN h + Amount("healing") ELSE top)
         ]_vars

\* damage of 15 and 90 has taken the health to 0, healing of 30 from there to 30
C14_Witness ==
    /\ procs.health_monitor.damage_taken = 105
    /\ procs.health_monitor.healing_received = 30
    /\ procs.health_monitor.knockouts = 0
    /\ procs.health_monitor.current_health = 30

\* the amounts the events of that type published so far carry under that key,
\* added up
RECURSIVE SumAmounts(_, _, _)
SumAmounts(log, t, key) ==
    IF log = <<>> THEN 0
    ELSE SumAmounts(Tail(log), t, key)
         + (IF Head(log).event_type = t /\ key \in DOMAIN Dict(Head(log).data)
            THEN Dict(Head(log).data)[key] ELSE 0)

\* C15: total_damage_taken and total_healing_received are the sums of the
\* amounts of all player_damaged and player_healed events, whether or not
\* the health could follow them, and net_damage is their difference.
C15_RawTotals ==
    LET s == HealthMonitor_get_statistics(procs.health_monitor)
    IN  /\ s.total_damage_taken = SumAmounts(events, "player_damaged", "damage")
        /\ s.total_healing_received = SumAmounts(events, "player_healed", "healing")
        /\ s.net_damage = s.total_damage_taken - s.total_healing_received

\* damage 25, damage 15, healing 30: health 90, net damage 10; a second
\* healing of 30 is counted in full although the health stops at 100
C15_Witness ==
    /\ Len(events) = 4
    /\ [i \in 1..4 |-> events[i].data] = <<"damage=25", "damage=15", "healing=30", "healing=30">>
    /\ [i \in 1..4 |-> events[i].event_type] =
           <<"player_damaged", "player_damaged", "player_healed", "player_healed">>
    /\ HealthMonitor_get_statistics(procs.health_monitor).current_health = 100
    /\ HealthMonitor_get_statistics(procs.health_monitor).total_healing_received = 60
    /\ HealthMonitor_get_statistics(procs.health_monitor).net_damage = -20

\* C16: a player_fainted event sets current_health to 0 and adds exactly one
\* to knockouts, whatever the state of the monitor, and changes nothing else
\* of it (the damage and healing totals, max_health).
C16_FaintedAuthoritative ==
    [][ Observed("player_fainted")
        => procs'.health_monitor =
               [procs.health_monitor EXCEPT !.current_health = 0, !.knockouts = @ + 1]
      ]_vars

\* fainted at health 75, and once more at health 0
C16_Witness ==
    /\ procs.health_monitor.knockouts = 2
    /\ procs.health_monitor.current_health = 0
    /\ procs.health_monitor.damage_taken = 25
    /\ procs.health_monitor.healing_received = 0
    /\ procs.health_monitor.max_health = 100

\* the log is game_started, then pairs of game_paused and game_resumed, then
\* game_ended
Lifecycle(log) ==
    /\ Len(log) >= 2
    /\ Len(log) % 2 = 0
    /\ log[1].event_type = "game_started"
    /\ log[Len(log)].event_type = "game_ended"
    /\ \A i \in 2..(Len(log) - 1) :
          log[i].event_type = IF i % 2 = 0 THEN "game_paused" ELSE "game_resumed"

\* resume minus pause, added up over the pairs from place i on
RECURSIVE PauseTotal(_, _)
PauseTotal(log, i) ==
    IF i + 1 >= Len(log) THEN 0
    ELSE (log[i + 1].timestamp - log[i].timestamp) + PauseTotal(log, i + 2)

\* C17: after game_started, any number of game_paused/game_resumed pairs and
\* game_ended, in this order, the tracker reports the number of pairs as
\* pause_count, the sum of resume - pause over the pairs as the total pause
\* duration, end - start as the total duration and their difference as the
\* active duration.
C17_Lifecycle ==
    Lifecycle(events)
    => LET s == GameTime_get_statistics(procs.game_time, now)
           pauses == PauseTotal(events, 2)
           total == events[Len(events)].timestamp - events[1].timestamp
       IN  /\ s.pause_count = (Len(events) - 2) \div 2
           /\ s.total_pause_duration_seconds = pauses
           /\ s.total_duration_seconds = total
           /\ s.active_duration_seconds = total - pauses

\* started at t0, paused at t0 + 10, resumed at t0 + 15, ended at t0 + 20
C17_Witness ==
    /\ Lifecycle(events)
    /\ Len(events) = 4
    /\ events[2].timestamp = events[1].timestamp + 10
    /\ events[3].timestamp = events[1].timestamp + 15
    /\ events[4].timestamp = events[1].timestamp + 20
    /\ GameTime_get_statistics(procs.game_time, now).pause_count = 1
    /\ GameTime_get_statistics(procs.game_time, now).total_pause_duration_seconds = 5
    /\ GameTime_get_statistics(procs.game_time, now).total_duration_seconds = 20
    /\ GameTime_get_statistics(procs.game_time, now).active_duration_seconds = 15

\* C18: a game_resumed event observed while no pause is open changes nothing
\* of the tracker (start_time, end_time, pause_count, total_pause_duration,
\* current_pause_start) and nothing is raised; so the second of two
\* game_resumed events after one pause adds nothing to the total.
C18_ResumeWithoutPause ==
    [][ (Observed("game_resumed") /\ procs.game_time.current_pause_start = NoTime)
        => /\ procs'.game_time = procs.game_time
           /\ uncaught' = uncaught
      ]_vars

\* started, paused, resumed 5 seconds later, and resumed again 10 seconds
\* after that: one pause of 5 seconds
C18_Witness ==
    /\ Len(events) = 4
    /\ [i \in 1..4 |-> events[i].event_type] =
           <<"game_started", "game_paused", "game_resumed", "game_resumed">>
    /\ events[3].timestamp = events[2].timestamp + 5
    /\ events[4].timestamp = events[3].timestamp + 10
    /\ procs.game_time.pause_count = 1
    /\ procs.game_time.total_pause_duration = 5
    /\ procs.game_time.current_pause_start = NoTime

\* the player_moved events that carry that direction
Moved(direction) ==
    {i \in Published("player_moved") :
        "direction" \in DOMAIN Dict(events[i].data)
        /\ Dict(events[i].data).direction = direction}

\* the player_moved events with a direction that is none of the four, or none
MovedElsewhere ==
    {i \in Published("player_moved") :
        \/ "direction" \notin DOMAIN Dict(events[i].data)
        \/ Dict(events[i].data).direction \notin Directions}

\* C19: total_steps is the number of player_moved events, each of the four
\* tallies the number of them with that direction, and the four tallies add
\* up to total_steps less the number of events whose direction is unknown or
\* missing.
C19_StepStatistics ==
    LET s == StepCounter_get_statistics(procs.step_counter)
        tallies == s.steps_by_direction.up + s.steps_by_direction.down
                   + s.steps_by_direction.left + s.steps_by_direction.right
    IN  /\ s.total_steps = Cardinality(Published("player_moved"))
        /\ DOMAIN s.steps_by_direction = Directions
        /\ \A d \in Directions : s.steps_by_direction[d] = Cardinality(Moved(d))
        /\ tallies <= s.total_steps
        /\ s.total_steps - tallies = Cardinality(MovedElsewhere)

\* five steps: up twice, left once, one in no known direction, one without
C19_Witness ==
    /\ StepCounter_get_statistics(procs.step_counter).total_steps = 5
    /\ StepCounter_get_statistics(procs.step_counter).steps_by_direction =
           [up |-> 2, down |-> 0, left |-> 1, right |-> 0]
    /\ \E i \in DOMAIN events : events[i].data = "direction=jump"
    /\ \E i \in DOMAIN events : events[i].data = EmptyDict

\* the tracker has seen game_started and has not seen game_ended
Running(tracker) == tracker.start_time # NoTime /\ tracker.end_time = NoTime

\* C20 as amended: get_statistics changes no processor state, and a second
\* call on the same processor with no event published in between returns the
\* snapshot the first call returned; the one exception is a GameTimeTracker
\* that has started and not ended, whose total and active durations are
\* measured up to the time of the call and so are greater in the second
\* snapshot by the time that passed between the two calls.
C20_SnapshotsRepeat ==
    [][ \A name \in ProcessorNames, dt \in {0, 5} :
            GetStatistics(name, dt)
            => /\ procs' = procs
               /\ \A i \in DOMAIN snapshots :
                     LET first == snapshots[i]
                         second == snapshots'[Len(snapshots')]
                     IN  first.of = name
                         => IF name = "game_time" /\ Running(procs.game_time)
                            THEN second.value =
                                     [first.value EXCEPT
                                         !.total_duration_seconds = @ + (second.at - first.at),
                                         !.active_duration_seconds = @ + (second.at - first.at)]
                            ELSE second.value = first.value
      ]_vars

\* a running tracker asked twice, five seconds apart
C20_Witness ==
    /\ Len(snapshots) = 2
    /\ snapshots[1].of = "game_time"
    /\ snapshots[2].of = "game_time"
    /\ Running(procs.game_time)
    /\ snapshots[2].at = snapshots[1].at + 5
    /\ snapshots[2].value.total_duration_seconds =
           snapshots[1].value.total_duration_seconds + 5
    /\ snapshots[2].value.pause_count = snapshots[1].value.pause_count

\* C20 as claimed: in every reachable state, a GameTimeTracker that has
\* started and not ended included, get_statistics changes no processor state
\* and a second call with no event published in between returns a snapshot
\* equal to the first.
C20_Idempotent ==
    [][ \A name \in ProcessorNames, dt \in {0, 5} :
            GetStatistics(name, dt)
            => /\ procs' = procs
               /\ \A i \in DOMAIN snapshots :
                     snapshots[i].of = name
                     => snapshots'[Len(snapshots')].value = snapshots[i].value
      ]_vars

\* C21: reports_generated is the number of reports the generator has
\* produced, those made for generate_report events and those made for
\* game_ended events alike.
C21_ReportsCounted ==
    procs.report_generator.reports_generated = Len(printed)

\* the reports the step has produced
Produced == SubSeq(printed', Len(printed) + 1, Len(printed'))

\* C22: a report has one statistics entry for each processor of the
\* generator's map and no other, each entry being what the processor's
\* get_statistics returns when the report is made: for a generate_report
\* event the state the event found, for a game_ended event the state the
\* handlers before the generator's have left.  Every report is built anew, so
\* it shows the events observed up to it, and the reports made earlier stay
\* as they were.
C22_ReportContent ==
    [][ /\ SubSeq(printed', 1, Len(printed)) = printed
        /\ \A i \in DOMAIN Produced :
              LET r == Produced[i].report
                  p == IF Observed("game_ended") THEN procs' ELSE procs
              IN  /\ DOMAIN r = {"generated_at", "statistics"}
                  /\ DOMAIN r.statistics = ProcessorNames
                  /\ \A name \in ProcessorNames :
                        r.statistics[name] = get_statistics(name, p, r.generated_at)
      ]_vars

\* a report after one step and a report after two: the second shows both
\* steps, the first still shows one
C22_Witness ==
    /\ Len(printed) = 2
    /\ printed[1].by = "report_generator.on_generate_report"
    /\ printed[1].report.statistics.step_counter.total_steps = 1
    /\ printed[2].report.statistics.step_counter.total_steps = 2
    /\ DOMAIN printed[2].report.statistics = ProcessorNames
    /\ procs.step_counter.step_count = 2

\* the reports made for generate_report events before the i-th report
RequestedBefore(i) ==
    {j \in 1..(i - 1) : printed[j].by = "report_generator.on_generate_report"}

\* C23: with the wiring of GameApplication every report has a
\* report_generator entry, and in the report made for the k-th
\* generate_report event that entry shows k - 1 reports generated.
C23_Reflexivity ==
    \A i \in DOMAIN printed :
        /\ "report_generator" \in DOMAIN printed[i].report.statistics
        /\ printed[i].by = "report_generator.on_generate_report"
           => printed[i].report.statistics.report_generator.reports_generated =
                  Cardinality(RequestedBefore(i))

\* three reports requested: the third says two
C23_Witness ==
    /\ Len(printed) = 3
    /\ \A i \in 1..3 : printed[i].by = "report_generator.on_generate_report"
    /\ printed[3].report.statistics.report_generator.reports_generated = 2
    /\ procs.report_generator.reports_generated = 3

\* the event types each processor subscribes to when it is constructed
Subscriptions ==
    [battle_counter |-> {"battle_started", "battle_ended"},
     step_counter |-> {"player_moved"},
     game_time |-> {"game_started", "game_ended", "game_paused", "game_resumed"},
     health_monitor |-> {"player_damaged", "player_healed", "player_fainted"},
     interaction_tracker |-> {"npc_interaction", "item_collected", "door_opened",
                              "menu_opened"},
     report_generator |-> {"generate_report", "game_ended"}]

\* the counter of the InteractionTracker that belongs to the event type
CounterOf ==
    [npc_interaction |-> "npc_interactions", item_collected |-> "items_collected",
     door_opened |-> "doors_opened", menu_opened |-> "menus_opened"]

\* C24: a publish of an event of type T leaves every processor that is not
\* subscribed to T as it was, state and statistics; each of the four
\* interaction events adds exactly one to its own counter of the
\* InteractionTracker and leaves the other three unchanged.
C24_Independence ==
    [][ \A t \in DOMAIN subscribers :
            Observed(t)
            => /\ \A name \in ProcessorNames :
                     t \notin Subscriptions[name]
                     => /\ procs'[name] = procs[name]
                        /\ get_statistics(name, procs', now') =
                               get_statistics(name, procs, now')
               /\ t \in DOMAIN CounterOf
                  => procs'.interaction_tracker =
                         [procs.interaction_tracker EXCEPT ![CounterOf[t]] = @ + 1]
      ]_vars

\* an NPC interaction and an item: one each, and no other processor has moved
C24_Witness ==
    /\ procs.interaction_tracker =
           [npc_interactions |-> 1, items_collected |-> 1, doors_opened |-> 0,
            menus_opened |-> 0]
    /\ \A name \in ProcessorNames \ {"interaction_tracker"} : procs[name] = Processors[name]
    /\ Len(events) = 2

\* the event published by the step carries nothing under that key
Lacks(key) == key \notin DOMAIN Dict(events'[Len(events')].data)

\* C25: no processor raises on an event whose payload is absent, empty or
\* without the field the processor reads, and the default is used:
\* player_damaged without damage and player_healed without healing leave the
\* health and the totals as they were, battle_ended without result leaves
\* battles_won and battles_lost as they were, player_moved without direction
\* adds one to total_steps and to no tally.
C25_MissingFields ==
    [][ /\ \A t \in DOMAIN subscribers : Observed(t) => last_call'.log # "error"
        /\ (Observed("player_damaged") /\ Lacks("damage"))
              => procs'.health_monitor = procs.health_monitor
        /\ (Observed("player_healed") /\ Lacks("healing"))
              => procs'.health_monitor = procs.health_monitor
        /\ (Observed("battle_ended") /\ Lacks("result"))
              => procs'.battle_counter = procs.battle_counter
        /\ (Observed("player_moved") /\ Lacks("direction"))
              => procs'.step_counter = [procs.step_counter EXCEPT !.step_count = @ + 1]
      ]_vars

\* a step without payload after a step up, and damage without payload after
\* damage of 25
C25_Witness ==
    /\ Len(events) = 3
    /\ events[1].event_type = "player_damaged" /\ events[1].data = "damage=25"
    /\ events[2].event_type = "player_damaged" /\ events[2].data = EmptyDict
    /\ events[3].event_type = "player_moved" /\ events[3].data = EmptyDict
    /\ procs.health_monitor.current_health = 75
    /\ procs.health_monitor.damage_taken = 25
    /\ procs.step_counter.step_count = 1
    /\ procs.step_counter.steps_by_direction.up = 0
    /\ last_call.log = "debug"

\* the threads that are inside a handler of that processor
Inside(name) ==
    {th \in Threads : threads[th].pc # "idle"
                      /\ Owner(events[threads[th].event].event_type) = name}

\* C26: when publish is called from two threads the handler invocations on
\* one processor never overlap, so once the threads are back from their
\* publish calls every event has been counted (total_steps is the number of
\* player_moved events, the damage total the sum of the damage, the health 100
\* less that sum or 0), and the history holds every published event once.
C26_Serialized ==
    /\ \A name \in ProcessorNames : Cardinality(Inside(name)) <= 1
    /\ event_history = [i \in DOMAIN events |-> i]
    /\ (\A th \in Threads : threads[th].pc = "idle")
       => /\ procs.step_counter.step_count = Cardinality(Published("player_moved"))
          /\ procs.step_counter.steps_by_direction.up = Cardinality(Published("player_moved"))
          /\ procs.health_monitor.damage_taken =
                 SumAmounts(events, "player_damaged", "damage")
          /\ procs.health_monitor.current_health =
                 Max(0, 100 - SumAmounts(events, "player_damaged", "damage"))

\* two threads have returned from one player_moved publish each and one
\* step has been counted
C26_LostUpdate ==
    /\ \A th \in Threads : threads[th].pc = "idle"
    /\ Cardinality(Published("player_moved")) = 2
    /\ Len(events) = 2
    /\ procs.step_counter.step_count = 1

\* C27: an event that re-triggers itself is not absorbed: the nesting of
\* dispatches never exceeds the depth bound, and once a publish of type T
\* called from inside the dispatches of T has failed at that bound, the
\* error has reached the program that made the original publish call
C27_CycleSurfaced ==
    /\ Len(stack) <= MaxDepth
    /\ (/\ last_call.op = "publish"
        /\ last_call.raised
        /\ \A i \in DOMAIN stack : stack[i].event_type = last_call.event_type)
       => uncaught

\* C28: the tracker is Running when it has seen game_started, has not seen
\* game_ended and has no pause open; a game_paused event observed in any other
\* state (not started, already paused, ended) leaves pause_count and
\* current_pause_start as they were
C28_PauseOnlyWhenRunning ==
    [][ (/\ Observed("game_paused")
         /\ ~(Running(procs.game_time) /\ procs.game_time.current_pause_start = NoTime))
        => /\ procs'.game_time.pause_count = procs.game_time.pause_count
           /\ procs'.game_time.current_pause_start = procs.game_time.current_pause_start
      ]_vars

C30_EndReflected ==
    \A i \in DOMAIN printed :
        (/\ printed[i].by = "report_generator.on_game_ended"
         /\ \E j \in DOMAIN events :
               /\ events[j].event_type = "game_started"
               /\ events[j].timestamp < printed[i].event.timestamp)
        => LET g == printed[i].report.statistics.game_time
           IN  /\ "end_time" \in DOMAIN g
               /\ g.end_time = printed[i].event.timestamp
               /\ g.total_duration_seconds = printed[i].event.timestamp - g.start_time

\* started, one step, ended 10 seconds after the start: the report of the
\* end says so
C30_Witness ==
    /\ Len(printed) = 1
    /\ printed[1].by = "report_generator.on_game_ended"
    /\ printed[1].event.event_type = "game_ended"
    /\ "end_time" \in DOMAIN printed[1].report.statistics.game_time
    /\ printed[1].report.statistics.game_time.end_time = printed[1].event.timestamp
    /\ printed[1].report.statistics.game_time.total_duration_seconds = 10
    /\ printed[1].report.statistics.step_counter.total_steps = 1

\* the log is game_started, then pairs of game_paused and game_resumed, then
\* a game_paused that no game_resumed follows, then game_ended
EndedInPause(log) ==
    /\ Len(log) >= 3
    /\ Len(log) % 2 = 1
    /\ log[1].event_type = "game_started"
    /\ log[Len(log)].event_type = "game_ended"
    /\ \A i \in 2..(Len(log) - 1) :
          log[i].event_type = IF i % 2 = 0 THEN "game_paused" ELSE "game_resumed"

\* C31: when the game ends while a pause is open, the open pause is counted
\* in pause_count and is not added to the total pause duration, so the active
\* duration is end - start less the completed pauses; and for every sequence
\* of lifecycle events that begins with game_started the total pause duration
\* of the snapshot is at most its total duration.
C31_PauseWithinDuration ==
    (events # <<>> /\ events[1].event_type = "game_started")
    => LET s == GameTime_get_statistics(procs.game_time, now)
       IN  /\ s.total_pause_duration_seconds <= s.total_duration_seconds
           /\ EndedInPause(events)
              => LET pauses == PauseTotal(events, 2)
                     total == events[Len(events)].timestamp - events[1].timestamp
                 IN  /\ s.pause_count = (Len(events) - 1) \div 2
                     /\ s.total_pause_duration_seconds = pauses
                     /\ s.active_duration_seconds = total - pauses

\* C32: whatever integers the player_damaged and player_healed events carry,
\* amounts below zero included, the health stays within 0..max_health
C32_HealthClamped ==
    /\ 0 <= procs.health_monitor.current_health
    /\ procs.health_monitor.current_health <= procs.health_monitor.max_health

====
